---------------------------- MODULE Spec2Model ----------------------------
(***************************************************************************)
(* A model of TestCracks (src/src/testcracks.c, src/include/testcracks.h): *)
(* the result model (constructors, tc_combine), the execution engine       *)
(* (tc_run_test, tc__run_suite_ex, tc__run_all_ex) and the command line    *)
(* front end with its filter (tc_main).                                    *)
(*                                                                         *)
(* C strings are sequences of one-character strings; a NULL char pointer   *)
(* is the distinguished value NULLSTR.  Function pointers and environment  *)
(* handles are strings, "NULL" being the null pointer.                     *)
(*                                                                         *)
(* The four capacities of testcracks.h are guarded by #ifndef, so a build  *)
(* chooses them; the model is of a build with small capacities             *)
(* (-DTC_MAX_ERRORS=3 -DTC_MAX_MSG_LEN=32 -DTC_MAX_TESTS_PER_SUITE=3       *)
(* -DTC_MAX_SUITES=2).                                                     *)
(***************************************************************************)
EXTENDS Integers, Sequences, FiniteSets, TLC

TC_MAX_ERRORS == 3

TC_MAX_MSG_LEN == 32

TC_MAX_TESTS_PER_SUITE == 3

TC_MAX_SUITES == 2

\* Bounds of the model.
MaxElapsed == 1

MaxChain == 5

MaxSuites == 3

MaxRun == 7

(***************************************************************************)
(* Strings                                                                 *)
(***************************************************************************)
NULLSTR == <<"(NULL)">>

Min(x, y) == IF x < y THEN x ELSE y

Take(s, n) == SubSeq(s, 1, Min(n, Len(s)))

\* n copies of the character c
Rep(c, n) == [k \in 1..n |-> c]

\* strlen + memcpy + terminator: at most max-1 characters are kept
tc__safe_copy(src, max) ==
    IF src = NULLSTR THEN <<>>
    ELSE LET len == IF Len(src) >= max THEN max - 1 ELSE Len(src)
         IN  SubSeq(src, 1, len)

\* strstr(str, pattern) != NULL
tc__matches(str, pattern) ==
    \E k \in 0..(Len(str) - Len(pattern)) :
        SubSeq(str, k + 1, k + Len(pattern)) = pattern

(***************************************************************************)
(* Result model                                                            *)
(***************************************************************************)
\* memset(&r, 0, sizeof(r)); r.tag = tag
ZeroResult(tag) == [tag |-> tag, errors |-> <<>>, elapsed_ms |-> 0]

tc__append_error(r, msg, expected, actual) ==
    IF Len(r.errors) < TC_MAX_ERRORS
    THEN [r EXCEPT !.errors = Append(@,
             [message  |-> tc__safe_copy(msg, TC_MAX_MSG_LEN),
              expected |-> tc__safe_copy(expected, TC_MAX_MSG_LEN),
              actual   |-> tc__safe_copy(actual, TC_MAX_MSG_LEN)])]
    ELSE r

tc_pass == ZeroResult("TC_PASS")

tc_fail(msg) == tc__append_error(ZeroResult("TC_FAIL"), msg, <<>>, <<>>)

tc_fail_with(msg, expected, actual) ==
    tc__append_error(ZeroResult("TC_FAIL"), msg, expected, actual)

tc_skip(reason) == tc__append_error(ZeroResult("TC_SKIP"), reason, <<>>, <<>>)

tc_skip_if(cond, reason) == IF cond THEN tc_skip(reason) ELSE tc_pass

tc_skip_unless(cond, reason) == IF cond THEN tc_pass ELSE tc_skip(reason)

tc_assert_true(cond, msg) ==
    IF cond THEN tc_pass ELSE tc_fail_with(msg, <<"t","r","u","e">>, <<"f","a","l","s","e">>)

\* Mutant: the copy loop does not stop at TC_MAX_ERRORS.
RECURSIVE CopyErrors_uncapped(_, _, _)
CopyErrors_uncapped(dst, src, i) ==
    IF i < Len(src)
    THEN CopyErrors_uncapped(Append(dst, src[i + 1]), src, i + 1)
    ELSE dst

\* One copy loop of tc_combine:
\*   for (i = 0; i < src.error_count && r.error_count < TC_MAX_ERRORS; i++)
RECURSIVE CopyErrors(_, _, _)
CopyErrors(dst, src, i) ==
    IF i < Len(src) /\ Len(dst) < TC_MAX_ERRORS
    THEN CopyErrors(Append(dst, src[i + 1]), src, i + 1)
    ELSE dst

\* Mutant: b's skip is looked at before a's.
tc_combine_b_first(a, b) ==
    IF b.tag = "TC_SKIP" THEN b
    ELSE IF a.tag = "TC_SKIP" THEN a
    ELSE IF a.tag = "TC_PASS" /\ b.tag = "TC_PASS" THEN a
    ELSE [ZeroResult("TC_FAIL") EXCEPT
             !.errors = CopyErrors(CopyErrors(<<>>, a.errors, 0), b.errors, 0)]

\* Mutant: the merged list holds b's errors before a's.
tc_combine_b_then_a(a, b) ==
    IF a.tag = "TC_SKIP" THEN a
    ELSE IF b.tag = "TC_SKIP" THEN b
    ELSE IF a.tag = "TC_PASS" /\ b.tag = "TC_PASS" THEN a
    ELSE [ZeroResult("TC_FAIL") EXCEPT
             !.errors = CopyErrors(CopyErrors(<<>>, b.errors, 0), a.errors, 0)]

\* Mutant: a failure on the left short-circuits, a later skip or failure is lost.
tc_combine_short_circuit(a, b) ==
    IF a.tag = "TC_SKIP" THEN a
    ELSE IF a.tag = "TC_FAIL" THEN a
    ELSE IF b.tag = "TC_SKIP" THEN b
    ELSE IF a.tag = "TC_PASS" /\ b.tag = "TC_PASS" THEN a
    ELSE [ZeroResult("TC_FAIL") EXCEPT
             !.errors = CopyErrors(CopyErrors(<<>>, a.errors, 0), b.errors, 0)]

tc_combine(a, b) ==
    IF a.tag = "TC_SKIP" THEN a
    ELSE IF b.tag = "TC_SKIP" THEN b
    ELSE IF a.tag = "TC_PASS" /\ b.tag = "TC_PASS" THEN a
    ELSE [ZeroResult("TC_FAIL") EXCEPT
             !.errors = CopyErrors(CopyErrors(<<>>, a.errors, 0), b.errors, 0)]

(***************************************************************************)
(* Inputs of the result model                                              *)
(***************************************************************************)
Tags == {"TC_PASS", "TC_FAIL", "TC_SKIP"}

\* Two distinguishable captured errors.
SampleErrors ==
    { [message |-> <<"m","1">>, expected |-> <<>>, actual |-> <<>>],
      [message |-> <<"m","2">>, expected |-> <<"4">>, actual |-> <<"5">>] }

ErrorLists == UNION { [1..n -> SampleErrors] : n \in 0..TC_MAX_ERRORS }

\* Any TestResult value: any tag with any error list that fits the array.
AnyResults ==
    [tag : Tags, errors : ErrorLists, elapsed_ms : 0..MaxElapsed]

\* What the constructors, skip guards and assertions return.
BuiltResults ==
    { tc_pass,
      tc_fail(<<"m","1">>),
      tc_fail_with(<<"m","2">>, <<"4">>, <<"5">>),
      tc_assert_true(FALSE, <<"m","3">>),
      tc_skip(<<"r","1">>),
      tc_skip_if(TRUE, <<"r","2">>) }

Chains == UNION { [1..n -> BuiltResults] : n \in 1..MaxChain }


(***************************************************************************)
(* Test and suite model                                                    *)
(***************************************************************************)
Test(name, fn) == [name |-> name, fn |-> fn, skip_reason |-> NULLSTR]

\* memset(&t, 0, sizeof(t)); t.name = name; t.fn = NULL; t.skip_reason = reason
tc_skip_test(name, reason) == [name |-> name, fn |-> "NULL", skip_reason |-> reason]

\* memset(&s, 0, sizeof(s)): a Suite with every field zero
ZeroSuite ==
    [name |-> NULLSTR, tests |-> <<>>, test_count |-> 0,
     setup |-> "NULL", teardown |-> "NULL"]

\* The copy loop of tc_suite_with:
\*   while (tests[i].name != NULL && i < TC_MAX_TESTS_PER_SUITE)
\* (tests is the caller's array without its {NULL} terminator)
RECURSIVE CopyTests(_, _, _)
CopyTests(dst, tests, i) ==
    IF i < Len(tests) /\ i < TC_MAX_TESTS_PER_SUITE
    THEN CopyTests(Append(dst, tests[i + 1]), tests, i + 1)
    ELSE dst

tc_suite_with(name, setup, teardown, tests) ==
    LET copied == CopyTests(<<>>, tests, 0)
    IN  [name |-> name, tests |-> copied, test_count |-> Len(copied),
         setup |-> setup, teardown |-> teardown]

tc_suite(name, tests) == tc_suite_with(name, "NULL", "NULL", tests)

(***************************************************************************)
(* User code: the test functions a caller registers.  Each returns what    *)
(* the result model builds; the engine never looks inside them.            *)
(***************************************************************************)
TestFns == {"fn_pass", "fn_fail", "fn_skip"}

UserTestFn(fn, env) ==
    CASE fn = "fn_pass" -> tc_assert_true(TRUE, <<"o","k">>)
      [] fn = "fn_fail" ->
            tc_combine(tc_assert_true(FALSE, <<"c","1">>), tc_fail(<<"c","2">>))
      [] OTHER -> tc_skip_unless(FALSE, <<"w","h","y">>)

\* What a setup function can do: return 0 having stored a handle, or fail.
SetupOutcomes(s) ==
    { [ret |-> 0, env |-> IF s % 2 = 0 THEN "h1" ELSE "h2"],
      [ret |-> 1, env |-> "NULL"] }

(***************************************************************************)
(* Inputs of the engine: suites, suite collections, command lines          *)
(***************************************************************************)
\* A skip reason longer than a message buffer.
LongReason == Rep("r", TC_MAX_MSG_LEN + 1)

SuiteCatalogue ==
    { tc_suite(<<"A">>,
               << Test(<<"t">>, "fn_pass"), Test(<<"t","1">>, "fn_fail") >>),
      tc_suite_with(<<"A","B">>, "setup", "teardown",
               << Test(<<"t">>, "fn_pass"),
                  tc_skip_test(<<"x">>, <<"r">>) >>),
      tc_suite_with(<<"B">>, "setup", "teardown", <<>>),
      tc_suite_with(<<"B">>, "NULL", "teardown",
               << tc_skip_test(<<"t","1">>, NULLSTR),
                  tc_skip_test(<<"x">>, LongReason),
                  tc_skip_test(<<"t">>, Rep("r", TC_MAX_MSG_LEN - 1)) >>),
      tc_suite_with(<<"A">>, "setup", "NULL",
               << Test(<<"x">>, "fn_skip") >>) }

Collections == UNION { [1..n -> SuiteCatalogue] : n \in 0..MaxSuites }

OPT_HELP == <<"--help">>

OPT_H == <<"-h">>

OPT_LIST == <<"--list">>

OPT_SUITE == <<"--suite">>

OPT_TEST == <<"--test">>

OPT_MATCH == <<"--match">>

OPT_XML == <<"--xml">>

XmlPath == <<"o",".","x","m","l">>

\* argv[1..argc-1] of the command lines tried.
CommandLines ==
    { <<>>,
      <<OPT_SUITE, <<"A">>>>,
      <<OPT_SUITE, <<"B">>>>,
      <<OPT_TEST, <<"A">>, <<"t">>>>,
      <<OPT_TEST, <<"B">>, <<"x">>>>,
      <<OPT_TEST, <<"A">>>>,
      <<OPT_MATCH, <<"t","1">>>>,
      <<OPT_MATCH, <<"z">>>>,
      <<OPT_SUITE, <<"A","B">>, OPT_MATCH, <<"x">>>>,
      <<OPT_TEST, <<"A">>, <<"x">>, OPT_MATCH, <<"t","1">>>>,
      <<OPT_LIST>>,
      <<OPT_HELP>>,
      <<OPT_LIST, OPT_H>>,
      <<OPT_XML, XmlPath>>,
      <<OPT_XML, XmlPath, OPT_LIST>>,
      <<OPT_XML, XmlPath, OPT_SUITE, <<"Z">>>>,
      <<OPT_XML, XmlPath, OPT_HELP>>,
      <<OPT_SUITE, OPT_LIST>> }

(***************************************************************************)
(* tc_main: argument parsing and the filter                                *)
(***************************************************************************)
NoOptions ==
    [help |-> FALSE, list_only |-> FALSE, suite_filter |-> NULLSTR,
     test_filter |-> NULLSTR, match_filter |-> NULLSTR, xml_file |-> NULLSTR]

\* The option loop, for (i = 1; i < argc; i++); args[i] is argv[i] and
\* argc = Len(args) + 1.  --help returns from tc_main at once.
RECURSIVE ParseArgs(_, _, _)
ParseArgs(args, i, p) ==
    IF ~(i < Len(args) + 1) THEN p
    ELSE IF args[i] = OPT_HELP \/ args[i] = OPT_H
         THEN [p EXCEPT !.help = TRUE]
    ELSE IF args[i] = OPT_LIST
         THEN ParseArgs(args, i + 1, [p EXCEPT !.list_only = TRUE])
    ELSE IF args[i] = OPT_SUITE /\ i + 1 < Len(args) + 1
         THEN ParseArgs(args, i + 2, [p EXCEPT !.suite_filter = args[i + 1]])
    ELSE IF args[i] = OPT_TEST /\ i + 2 < Len(args) + 1
         THEN ParseArgs(args, i + 3,
                  [p EXCEPT !.suite_filter = args[i + 1], !.test_filter = args[i + 2]])
    ELSE IF args[i] = OPT_MATCH /\ i + 1 < Len(args) + 1
         THEN ParseArgs(args, i + 2, [p EXCEPT !.match_filter = args[i + 1]])
    ELSE IF args[i] = OPT_XML /\ i + 1 < Len(args) + 1
         THEN ParseArgs(args, i + 2, [p EXCEPT !.xml_file = args[i + 1]])
    ELSE ParseArgs(args, i + 1, p)

\* A Suite* is either one of the caller's suites (suites[idx], idx from 0) or
\* an element of the static array filtered_suites.
CallerPtr(i) == [static |-> FALSE, idx |-> i]

StaticPtr(k) == [static |-> TRUE, idx |-> k]

\* Mutant: the test name must equal the filter (strcmp), not contain it.
IncludeTest_exact(name, tf, mf) ==
    \/ tf # NULLSTR /\ name = tf
    \/ mf # NULLSTR /\ name = mf

\* The include flag of the inner loop of tc_main.
IncludeTest(name, tf, mf) ==
    \/ tf # NULLSTR /\ tc__matches(name, tf)
    \/ mf # NULLSTR /\ tc__matches(name, mf)

\* The inner loop: for (j = 0; j < suites[i]->test_count; j++)
RECURSIVE FilterTests(_, _, _, _, _)
FilterTests(temp, suite, j, tf, mf) ==
    IF ~(j < suite.test_count) THEN temp
    ELSE FilterTests(
             IF IncludeTest(suite.tests[j + 1].name, tf, mf)
             THEN [temp EXCEPT !.tests = Append(@, suite.tests[j + 1]),
                               !.test_count = @ + 1]
             ELSE temp,
             suite, j + 1, tf, mf)

\* The loop condition: suites[i] != NULL && count < TC_MAX_SUITES
FilterMore(ss, i, count) == i < Len(ss) /\ count < TC_MAX_SUITES

\* Mutant: a suite that keeps no test is kept, empty.
KeepFiltered_always(temp) == TRUE

\* if (temp.test_count > 0)
KeepFiltered(temp) == temp.test_count > 0

\* Mutant: the filtered copy is written over the caller's suite.
FilteredSlot_in_place(count) == CallerPtr(count)

\* &filtered_suites[count], where a filtered copy is stored
FilteredSlot(count) == StaticPtr(count)

\* *p = v, in the memory mem that holds the caller's suites and the static
\* array filtered_suites
Store(mem, p, v) ==
    IF p.static
    THEN [mem EXCEPT !.filtered_suites[p.idx] = v]
    ELSE [mem EXCEPT !.suites[p.idx + 1] = v]

\* The outer loop; ss is the caller's list, st holds filtered[] (its first
\* count entries), the static filtered_suites[] and the caller's suites.
RECURSIVE FilterSuites(_, _, _, _)
FilterSuites(ss, i, st, p) ==
    IF ~FilterMore(ss, i, Len(st.filtered)) THEN st
    ELSE IF p.suite_filter # NULLSTR
              /\ ~tc__matches(st.suites[i + 1].name, p.suite_filter)
         THEN FilterSuites(ss, i + 1, st, p)
    ELSE IF p.test_filter # NULLSTR \/ p.match_filter # NULLSTR
         THEN LET temp == FilterTests(
                              [ZeroSuite EXCEPT !.name = st.suites[i + 1].name,
                                                !.setup = st.suites[i + 1].setup,
                                                !.teardown = st.suites[i + 1].teardown],
                              st.suites[i + 1], 0, p.test_filter, p.match_filter)
                  count == Len(st.filtered)
              IN  IF KeepFiltered(temp)
                  THEN FilterSuites(ss, i + 1,
                           [Store(st, FilteredSlot(count), temp)
                               EXCEPT !.filtered = Append(@, FilteredSlot(count))],
                           p)
                  ELSE FilterSuites(ss, i + 1, st, p)
    ELSE FilterSuites(ss, i + 1,
             [st EXCEPT !.filtered = Append(@, CallerPtr(i))], p)

\* Mutant: skipped tests make the exit code nonzero too.
tc_print_summary_counts_skipped(summary) ==
    IF summary.failed + summary.skipped > 0 THEN 1 ELSE 0

\* return summary.failed > 0 ? 1 : 0
tc_print_summary(summary) == IF summary.failed > 0 THEN 1 ELSE 0

ZeroSummary == [passed |-> 0, failed |-> 0, skipped |-> 0]

(***************************************************************************)
(* The XML reporter: escaping and the body of a failure element            *)
(***************************************************************************)
\* char escaped[TC_MAX_MSG_LEN * 2], msg_escaped[TC_MAX_MSG_LEN * 2]
EscapedSize == TC_MAX_MSG_LEN * 2

\* char detail[TC_MAX_MSG_LEN * 4]
DetailSize == TC_MAX_MSG_LEN * 4

\* What one round of the switch of tc__xml_escape copies for character c.
Entity(c) ==
    CASE c = "&"  -> <<"&","a","m","p",";">>
      [] c = "<"  -> <<"&","l","t",";">>
      [] c = ">"  -> <<"&","g","t",";">>
      [] c = "\"" -> <<"&","q","u","o","t",";">>
      [] c = "'"  -> <<"&","a","p","o","s",";">>
      [] OTHER    -> <<c>>

\* for (si = 0; src[si] != '\0' && di < max - 6; si++); di is Len(dst) and
\* si counts from 0.
RECURSIVE EscapeLoop(_, _, _, _)
EscapeLoop(dst, src, si, max) ==
    IF si < Len(src) /\ Len(dst) < max - 6
    THEN EscapeLoop(dst \o Entity(src[si + 1]), src, si + 1, max)
    ELSE dst

\* The string tc__xml_escape leaves in dst.
tc__xml_escape(src, max) ==
    IF src = NULLSTR THEN <<>> ELSE EscapeLoop(<<>>, src, 0, max)

NL == <<"\n">>

\* "  Expected: "
ExpectedLabel == <<" "," ","E","x","p","e","c","t","e","d",":"," ">>

\* "  Actual:   "
ActualLabel == <<" "," ","A","c","t","u","a","l",":"," "," "," ">>

\* detail before the loop: nothing written yet, pos = 0.  text is the
\* string in detail, ub tells that a write went past the end of detail.
EmptyDetail == [text |-> <<>>, pos |-> 0, ub |-> FALSE]

\* pos += snprintf(detail + pos, sizeof(detail) - pos, ..., s): at most
\* sizeof(detail) - pos - 1 characters of s are stored, the whole length of
\* s is added to pos.  With pos past sizeof(detail) the size argument wraps
\* (size_t) and the write lands outside detail.
Snprintf(d, s) ==
    IF d.pos > DetailSize
    THEN [d EXCEPT !.pos = @ + Len(s), !.ub = TRUE]
    ELSE [d EXCEPT !.text = Take(d.text, d.pos) \o Take(s, DetailSize - d.pos - 1),
                   !.pos = @ + Len(s)]

\* for (k = 0; k < r->error_count && pos < (int)sizeof(detail) - 100; k++)
RECURSIVE DetailLoop(_, _, _)
DetailLoop(r, k, d) ==
    IF ~(k < Len(r.errors) /\ d.pos < DetailSize - 100) THEN d
    ELSE LET e  == r.errors[k + 1]
             d1 == Snprintf(d, tc__xml_escape(e.message, EscapedSize) \o NL)
             d2 == Snprintf(d1, ExpectedLabel
                                  \o tc__xml_escape(e.expected, EscapedSize) \o NL)
             d3 == Snprintf(d2, ActualLabel
                                  \o tc__xml_escape(e.actual, EscapedSize) \o NL)
         IN  DetailLoop(r, k + 1, IF e.expected # <<>> THEN d3 ELSE d1)

\* What a build may leave as the text of detail after a write outside it.
Clobbered == { <<>>, <<"?">> }

\* The body of the failure element: the string in detail, and after a write
\* outside detail any text (clobber stands for it).
FailureBody(r, clobber) ==
    LET d == DetailLoop(r, 0, EmptyDetail)
    IN  IF d.ub THEN clobber ELSE d.text

\* The testcase element written for test and its stored result r.
XmlTestcase(test, r, clobber) ==
    LET name == tc__xml_escape(test.name, EscapedSize)
    IN  CASE r.tag = "TC_FAIL" /\ Len(r.errors) > 0 ->
                [name |-> name, time |-> r.elapsed_ms, child |-> "failure",
                 message |-> tc__xml_escape(r.errors[1].message, EscapedSize),
                 body |-> FailureBody(r, clobber)]
          [] r.tag = "TC_SKIP" /\ Len(r.errors) > 0 ->
                [name |-> name, time |-> 0, child |-> "skipped",
                 message |-> tc__xml_escape(r.errors[1].message, EscapedSize),
                 body |-> <<>>]
          [] r.tag = "TC_SKIP" ->
                [name |-> name, time |-> 0, child |-> "skipped",
                 message |-> NULLSTR, body |-> <<>>]
          [] OTHER ->
                [name |-> name, time |-> r.elapsed_ms, child |-> "none",
                 message |-> NULLSTR, body |-> <<>>]

\* The testsuite element of suite, written from its stored results (the
\* first count entries of results).
XmlTestsuite(suite, results, count, clobber) ==
    LET Stored(tag) == Cardinality({ j \in 0..(count - 1) : results[j].tag = tag })
        RECURSIVE Time(_)
        Time(j) == IF j = 0 THEN 0 ELSE Time(j - 1) + results[j - 1].elapsed_ms
        shown == Min(count, suite.test_count)
    IN  [name     |-> tc__xml_escape(suite.name, EscapedSize),
         tests    |-> Stored("TC_PASS") + Stored("TC_FAIL") + Stored("TC_SKIP"),
         failures |-> Stored("TC_FAIL"),
         skipped  |-> Stored("TC_SKIP"),
         time     |-> Time(count),
         cases    |-> [j \in 1..shown |->
                          XmlTestcase(suite.tests[j], results[j - 1], clobber)]]

\* No document.
NoDocument == [tests |-> 0, failures |-> 0, skipped |-> 0, suites |-> <<>>]

(***************************************************************************)
(* State                                                                   *)
(***************************************************************************)
VARIABLES
    \* a tc_combine call and a left-to-right fold of tc_combine
    cpc, ca, cb, cr, chain, acc, ci,
    \* the caller: the entry point called, its argv[1..] and its suites
    entry, argv, suites,
    \* the engine's position and locals
    \* (res is the TestResult r of the test loop of tc__run_suite_ex)
    pc, opts, filtered, store_results, si, ti, env, res, summary, total,
    \* static storage
    filtered_suites, tc__results, tc__result_counts,
    \* what the run did: user functions called, messages printed, the XML
    \* file, the value tc_main returned (-1 while it has not returned)
    calls, msgs, xml_out, exit_code,
    \* the document tc_write_junit_xml wrote
    xml_doc,
    \* the suite indices at which tc__results and tc__result_counts were
    \* read or written
    accessed,
    \* a call of tc__xml_escape and the writing of one failure element
    \* (xpos is pos after the loop that fills detail)
    xpc, xsrc, xesc, xres, xelem, xpos

resultVars == <<cpc, ca, cb, cr, chain, acc, ci>>

engineVars ==
    <<entry, argv, suites, pc, opts, filtered, store_results, si, ti, env,
      res, summary, total, filtered_suites, tc__results, tc__result_counts,
      calls, msgs, xml_out, exit_code, xml_doc, accessed>>

xmlVars == <<xpc, xsrc, xesc, xres, xelem, xpos>>

vars == <<resultVars, engineVars, xmlVars>>

\* Static storage is zero-initialised.
ZeroResults ==
    [k \in 0..(TC_MAX_SUITES - 1) |->
        [j \in 0..(TC_MAX_TESTS_PER_SUITE - 1) |-> ZeroResult("TC_PASS")]]

ZeroCounts == [k \in 0..(TC_MAX_SUITES - 1) |-> 0]

ResultIdle ==
    /\ cpc = "idle"
    /\ ca = tc_pass /\ cb = tc_pass /\ cr = tc_pass
    /\ chain = <<>> /\ acc = tc_pass /\ ci = 0

EngineStart ==
    /\ pc = "start"
    /\ opts = NoOptions
    /\ filtered = <<>>
    /\ store_results = FALSE
    /\ si = 0 /\ ti = 0 /\ env = "NULL"
    /\ res = ZeroResult("TC_PASS")
    /\ summary = ZeroSummary /\ total = ZeroSummary
    /\ filtered_suites = [k \in 0..(TC_MAX_SUITES - 1) |-> ZeroSuite]
    /\ tc__results = ZeroResults
    /\ tc__result_counts = ZeroCounts
    /\ calls = <<>> /\ msgs = {} /\ xml_out = "absent" /\ exit_code = -1
    /\ xml_doc = NoDocument
    /\ accessed = {}

NoElement ==
    [name |-> <<>>, time |-> 0, child |-> "none", message |-> NULLSTR,
     body |-> <<>>]

XmlIdle ==
    /\ xpc = "idle"
    /\ xsrc = <<>> /\ xesc = <<>>
    /\ xres = tc_pass
    /\ xelem = NoElement
    /\ xpos = 0

(***************************************************************************)
(* The result model at work                                                *)
(***************************************************************************)
InitResult ==
    /\ \/ /\ cpc = "pair"
          /\ ca \in AnyResults /\ cb \in AnyResults
          /\ chain = <<>> /\ acc = tc_pass /\ ci = 0
       \/ /\ cpc = "fold"
          /\ ca = tc_pass /\ cb = tc_pass
          /\ chain \in Chains /\ acc = chain[1] /\ ci = 1
    /\ cr = tc_pass
    /\ entry = "none" /\ argv = <<>> /\ suites = <<>>
    /\ EngineStart
    /\ XmlIdle

\* r = tc_combine(a, b)
Combine ==
    /\ cpc = "pair"
    /\ cr' = tc_combine(ca, cb)
    /\ cpc' = "paired"
    /\ UNCHANGED <<ca, cb, chain, acc, ci, engineVars, xmlVars>>

\* r = tc_combine(r, next), as test_validate_order chains its checks
FoldStep ==
    /\ cpc = "fold"
    /\ ci < Len(chain)
    /\ acc' = tc_combine(acc, chain[ci + 1])
    /\ ci' = ci + 1
    /\ UNCHANGED <<cpc, ca, cb, cr, chain, engineVars, xmlVars>>

\* return r
FoldReturn ==
    /\ cpc = "fold"
    /\ ci = Len(chain)
    /\ cpc' = "folded"
    /\ UNCHANGED <<ca, cb, cr, chain, acc, ci, engineVars, xmlVars>>

NextResult == Combine \/ FoldStep \/ FoldReturn

SpecResult == InitResult /\ [][NextResult]_vars

(***************************************************************************)
(* The XML reporter at work                                                *)
(***************************************************************************)
XmlChars == {"a", "&", "<", ">", "\"", "'"}

\* Lengths of the plain text that precedes a run of one character: none,
\* what leaves a message at its full length, what leaves dst nearly full.
Pads == {0, TC_MAX_MSG_LEN - 8, EscapedSize - 12}

\* Suite names, test names and messages handed to tc__xml_escape.
EscapeInputs ==
    { Rep("a", pad) \o Rep(c, n) \o t :
        pad \in Pads, c \in XmlChars, n \in 0..MaxRun, t \in {<<>>, <<"z">>} }

\* Captured errors of a failing test, as tc_fail and tc_fail_with store them.
XmlErrors ==
    { [message |-> <<"m">>, expected |-> <<>>, actual |-> <<>>],
      [message |-> <<"m","<">>, expected |-> <<"1">>, actual |-> <<"2">>],
      [message |-> Rep("m", TC_MAX_MSG_LEN - 5), expected |-> <<>>, actual |-> <<>>],
      [message |-> Rep("m", TC_MAX_MSG_LEN - 1),
       expected |-> Rep("\"", TC_MAX_MSG_LEN - 1), actual |-> <<"2">>],
      [message |-> Rep("&", TC_MAX_MSG_LEN - 1),
       expected |-> Rep("&", TC_MAX_MSG_LEN - 1), actual |-> <<"2">>] }

RECURSIVE AppendErrors(_, _, _)
AppendErrors(r, es, k) ==
    IF k > Len(es) THEN r
    ELSE AppendErrors(
             tc__append_error(r, es[k].message, es[k].expected, es[k].actual),
             es, k + 1)

\* Failing results of one to TC_MAX_ERRORS captured errors.
FailResults ==
    { AppendErrors(ZeroResult("TC_FAIL"), es, 1) :
        es \in UNION { [1..n -> XmlErrors] : n \in 1..TC_MAX_ERRORS } }

InitXml ==
    /\ \/ /\ xpc = "escape"
          /\ xsrc \in EscapeInputs \cup {NULLSTR}
          /\ xres = tc_pass
       \/ /\ xpc = "failure"
          /\ xsrc = <<>>
          /\ xres \in FailResults
    /\ xesc = <<>> /\ xelem = NoElement /\ xpos = 0
    /\ ResultIdle
    /\ entry = "none" /\ argv = <<>> /\ suites = <<>>
    /\ EngineStart

\* tc__xml_escape(escaped, src, sizeof(escaped))
Escape ==
    /\ xpc = "escape"
    /\ xesc' = tc__xml_escape(xsrc, EscapedSize)
    /\ xpc' = "escaped"
    /\ UNCHANGED <<resultVars, engineVars, xsrc, xres, xelem, xpos>>

\* case TC_FAIL of tc_write_junit_xml for a test t with result xres
WriteFailure ==
    /\ xpc = "failure"
    /\ \E clobber \in Clobbered :
           xelem' = XmlTestcase(Test(<<"t">>, "fn_fail"), xres, clobber)
    /\ xpos' = DetailLoop(xres, 0, EmptyDetail).pos
    /\ xpc' = "written"
    /\ UNCHANGED <<resultVars, engineVars, xsrc, xesc, xres>>

NextXml == Escape \/ WriteFailure

SpecXml == InitXml /\ [][NextXml]_vars

(***************************************************************************)
(* The execution engine and tc_main                                        *)
(***************************************************************************)
Init ==
    /\ ResultIdle
    /\ entry \in {"tc_main", "tc_run_all", "tc_run_suite"}
    /\ suites \in Collections
    /\ argv \in CommandLines
    /\ entry # "tc_main" => argv = <<>>
    /\ entry = "tc_run_suite" => Len(suites) = 1
    /\ EngineStart
    /\ XmlIdle

\* *p for a Suite* p
Deref(p) == IF p.static THEN filtered_suites[p.idx] ELSE suites[p.idx + 1]

\* The suite tc__run_suite_ex is running.
CurSuite == Deref(filtered[si + 1])

\* Its suite_idx argument: store_results ? i : -1, and -1 from tc_run_suite.
SuiteIdx == IF store_results THEN si ELSE -1

Call(fn, test, e, ret) ==
    [fn |-> fn, suite |-> si, test |-> test, env |-> e, ret |-> ret]

\* Mutant: a static skip is timed like a test that ran.
tc_run_test_timed_skip(test, e, elapsed) ==
    IF test.fn = "NULL"
    THEN [tc_skip(IF test.skip_reason # NULLSTR THEN test.skip_reason
                  ELSE <<"s","k","i","p","p","e","d">>)
             EXCEPT !.elapsed_ms = MaxElapsed + 1]
    ELSE [UserTestFn(test.fn, e) EXCEPT !.elapsed_ms = elapsed]

\* elapsed is tc__get_time_ms() - start around the call of test->fn
tc_run_test(test, e, elapsed) ==
    IF test.fn = "NULL"
    THEN tc_skip(IF test.skip_reason # NULLSTR THEN test.skip_reason
                 ELSE <<"s","k","i","p","p","e","d">>)
    ELSE [UserTestFn(test.fn, e) EXCEPT !.elapsed_ms = elapsed]

\* Mutant: a skipped test is not counted.
Count_drops_skip(s, r) ==
    CASE r.tag = "TC_PASS" -> [s EXCEPT !.passed = @ + 1]
      [] r.tag = "TC_FAIL" -> [s EXCEPT !.failed = @ + 1]
      [] OTHER -> s

\* switch (r.tag) of tc__run_suite_ex
Count(s, r) ==
    CASE r.tag = "TC_PASS" -> [s EXCEPT !.passed = @ + 1]
      [] r.tag = "TC_FAIL" -> [s EXCEPT !.failed = @ + 1]
      [] r.tag = "TC_SKIP" -> [s EXCEPT !.skipped = @ + 1]
      [] OTHER -> s

\* Mutant: the failed count of a suite is not carried into the total.
Accumulate_without_failed(t, s) ==
    [passed |-> t.passed + s.passed, failed |-> t.failed,
     skipped |-> t.skipped + s.skipped]

\* total.passed += s.passed; ... of tc__run_all_ex
Accumulate(t, s) ==
    [passed |-> t.passed + s.passed, failed |-> t.failed + s.failed,
     skipped |-> t.skipped + s.skipped]

\* Mutant: a failed creation of the XML file is not noticed.
CreateFailed_ignored(p, fopen_ok) == FALSE

\* if (xml_file) { FILE* f = fopen(xml_file, "w"); if (!f) ...
CreateFailed(p, fopen_ok) == p.xml_file # NULLSTR /\ ~fopen_ok

\* Mutant: --list does not stop tc_main.
ListRequested_never(p) == FALSE

\* if (list_only)
ListRequested(p) == p.list_only

\* Mutant: an empty filtered list is run.
NoneMatched_never(count) == FALSE

\* if (count == 0)
NoneMatched(count) == count = 0

\* tc_main up to its call of tc__run_all_ex: the options, the creation of
\* the XML file, --list, the filter.
Main ==
    /\ pc = "start" /\ entry = "tc_main"
    /\ \E fopen_ok \in BOOLEAN :
        LET p  == ParseArgs(argv, 1, NoOptions)
            st == FilterSuites(suites, 0,
                      [filtered |-> <<>>, filtered_suites |-> filtered_suites,
                       suites |-> suites], p)
        IN  /\ opts' = p
            /\ IF p.help
               THEN /\ msgs' = {"help"} /\ exit_code' = 0 /\ pc' = "done"
                    /\ UNCHANGED <<xml_out, filtered, filtered_suites, suites>>
               ELSE IF CreateFailed(p, fopen_ok)
               THEN /\ msgs' = {"cannot create xml"} /\ exit_code' = 1 /\ pc' = "done"
                    /\ UNCHANGED <<xml_out, filtered, filtered_suites, suites>>
               ELSE /\ xml_out' = IF p.xml_file # NULLSTR /\ fopen_ok
                                  THEN "empty" ELSE xml_out
                    /\ IF ListRequested(p)
                       THEN /\ msgs' = {"list"} /\ exit_code' = 0 /\ pc' = "done"
                            /\ UNCHANGED <<filtered, filtered_suites, suites>>
                       ELSE /\ filtered' = st.filtered
                            /\ filtered_suites' = st.filtered_suites
                            /\ suites' = st.suites
                            /\ IF NoneMatched(Len(st.filtered))
                               THEN /\ msgs' = {"no tests matched"}
                                    /\ exit_code' = 1 /\ pc' = "done"
                               ELSE /\ pc' = "run_all"
                                    /\ UNCHANGED <<msgs, exit_code>>
    /\ store_results' = IF pc' = "run_all" THEN TRUE ELSE store_results
    /\ UNCHANGED <<resultVars, xmlVars, res, entry, argv, si, ti, env,
                   summary, total, tc__results, tc__result_counts, calls,
                   xml_doc, accessed>>

\* A caller calls tc_run_all(suites): tc__run_all_ex(suites, 1)
CallRunAll ==
    /\ pc = "start" /\ entry = "tc_run_all"
    /\ filtered' = [k \in 1..Len(suites) |-> CallerPtr(k - 1)]
    /\ store_results' = TRUE
    /\ pc' = "run_all"
    /\ UNCHANGED <<resultVars, xmlVars, res, entry, argv, suites, opts, si, ti, env, summary,
                   total, filtered_suites, tc__results, tc__result_counts,
                   calls, msgs, xml_out, exit_code,
                   xml_doc, accessed>>

\* A caller calls tc_run_suite(suites[0]): tc__run_suite_ex(suite, -1)
CallRunSuite ==
    /\ pc = "start" /\ entry = "tc_run_suite"
    /\ filtered' = <<CallerPtr(0)>>
    /\ store_results' = FALSE
    /\ si' = 0
    /\ pc' = "suite"
    /\ UNCHANGED <<resultVars, xmlVars, res, entry, argv, suites, opts, ti, env, summary,
                   total, filtered_suites, tc__results, tc__result_counts,
                   calls, msgs, xml_out, exit_code,
                   xml_doc, accessed>>

\* Mutant: the counts of the last run are kept.
ResetCounts_kept(counts) == counts

\* memset(tc__result_counts, 0, sizeof(tc__result_counts))
ResetCounts(counts) == ZeroCounts

\* tc__run_all_ex before its loop
RunAllBegin ==
    /\ pc = "run_all"
    /\ total' = ZeroSummary
    /\ tc__result_counts' = ResetCounts(tc__result_counts)
    /\ si' = 0
    /\ pc' = "suite"
    /\ UNCHANGED <<resultVars, xmlVars, res, entry, argv, suites, opts, filtered,
                   store_results, ti, env, summary, filtered_suites,
                   tc__results, calls, msgs, xml_out, exit_code,
                   xml_doc, accessed>>

\* Where a finished tc__run_suite_ex returns to, with its summary s.
SuiteReturns(s) ==
    /\ summary' = s
    /\ IF entry = "tc_run_suite"
       THEN total' = s /\ pc' = "done" /\ si' = si
       ELSE total' = Accumulate(total, s) /\ pc' = "suite" /\ si' = si + 1

\* Mutant: the setup-failed path falls through to the tests.
SetupFailed_ignored(ret) == FALSE

\* if (ret != 0)
SetupFailed(ret) == ret # 0

\* Mutant: env is not a fresh local, the last suite's handle is still in it.
InitialEnv_carried(prev) == prev

\* void* env = NULL, whatever an earlier suite run left (prev)
InitialEnv(prev) == "NULL"

\* tc__run_suite_ex up to its test loop: the setup, and the early return
\* when it fails.
SuiteBegin ==
    /\ pc = "suite"
    /\ si < Len(filtered)
    /\ IF CurSuite.setup # "NULL"
       THEN \E o \in SetupOutcomes(si) :
              /\ calls' = Append(calls, Call("setup", -1, o.env, o.ret))
              /\ IF SetupFailed(o.ret)
                 THEN /\ SuiteReturns([ZeroSummary EXCEPT !.failed = CurSuite.test_count])
                      /\ UNCHANGED <<env, ti>>
                 ELSE /\ env' = o.env /\ ti' = 0
                      /\ summary' = ZeroSummary /\ pc' = "tests"
                      /\ UNCHANGED <<total, si>>
       ELSE /\ env' = InitialEnv(env) /\ ti' = 0
            /\ summary' = ZeroSummary /\ pc' = "tests"
            /\ UNCHANGED <<total, si, calls>>
    /\ UNCHANGED <<resultVars, xmlVars, res, entry, argv, suites, opts, filtered,
                   store_results, filtered_suites, tc__results,
                   tc__result_counts, msgs, xml_out, exit_code,
                   xml_doc, accessed>>

\* Mutant: the test loop stops one test early.
MoreTests_off_by_one(suite, i) == i < suite.test_count - 1

\* The condition of the test loop: i < suite->test_count
MoreTests(suite, i) == i < suite.test_count

\* One round of the test loop of tc__run_suite_ex.
RunTest ==
    /\ pc = "tests"
    /\ MoreTests(CurSuite, ti)
    /\ \E elapsed \in 0..MaxElapsed :
        LET test == CurSuite.tests[ti + 1]
            r    == tc_run_test(test, env, elapsed)
        IN  /\ calls' = IF test.fn # "NULL"
                        THEN Append(calls, Call(test.fn, ti, env, 0))
                        ELSE calls
            /\ IF SuiteIdx >= 0 /\ SuiteIdx < TC_MAX_SUITES
               THEN /\ tc__results' = [tc__results EXCEPT ![SuiteIdx][ti] = r]
                    /\ tc__result_counts' =
                           [tc__result_counts EXCEPT ![SuiteIdx] = ti + 1]
                    /\ accessed' = accessed \cup {SuiteIdx}
               ELSE UNCHANGED <<tc__results, tc__result_counts, accessed>>
            /\ res' = r
            /\ summary' = Count(summary, r)
    /\ ti' = ti + 1
    /\ UNCHANGED <<resultVars, xmlVars, entry, argv, suites, pc, opts, filtered,
                   store_results, si, env, total, filtered_suites, msgs,
                   xml_out, exit_code, xml_doc>>

\* Mutant: teardown is called only when a setup ran.
HasTeardown_needs_setup(suite) == suite.teardown # "NULL" /\ suite.setup # "NULL"

\* if (suite->teardown)
HasTeardown(suite) == suite.teardown # "NULL"

\* tc__run_suite_ex after its test loop: the teardown and the return.
SuiteEnd ==
    /\ pc = "tests"
    /\ ~MoreTests(CurSuite, ti)
    /\ calls' = IF HasTeardown(CurSuite)
                THEN Append(calls, Call("teardown", -1, env, 0))
                ELSE calls
    /\ SuiteReturns(summary)
    /\ UNCHANGED <<resultVars, xmlVars, res, entry, argv, suites, opts, filtered,
                   store_results, ti, env, filtered_suites, tc__results,
                   tc__result_counts, msgs, xml_out, exit_code,
                   xml_doc, accessed>>

\* tc__run_all_ex after its loop (suites[i] == NULL): return total
RunAllReturn ==
    /\ pc = "suite"
    /\ ~(si < Len(filtered))
    /\ pc' = IF entry = "tc_main" THEN "report" ELSE "done"
    /\ UNCHANGED <<resultVars, xmlVars, res, entry, argv, suites, opts, filtered,
                   store_results, si, ti, env, summary, total,
                   filtered_suites, tc__results, tc__result_counts, calls,
                   msgs, xml_out, exit_code, xml_doc, accessed>>

\* What a read of the result storage at an index past its end may find.
JunkStorage ==
    { [count |-> 0, results |-> ZeroResults[0]],
      [count |-> 1,
       results |-> [j \in 0..(TC_MAX_TESTS_PER_SUITE - 1) |-> tc_fail(<<"?">>)]] }

\* tc__result_counts[i] and tc__results[i] as tc_write_junit_xml reads them;
\* junk is what is found when i is past the end of the arrays.
StoredAt(i, junk) ==
    IF i < TC_MAX_SUITES
    THEN [count |-> tc__result_counts[i], results |-> tc__results[i]]
    ELSE junk

\* The document tc_write_junit_xml(filename, sts, sm) writes once the
\* file is open: the root totals from the summary sm, one testsuite element
\* per suite of sts from the stored results.
tc_write_junit_xml(sts, sm, clobber, junk) ==
    [tests    |-> sm.passed + sm.failed + sm.skipped,
     failures |-> sm.failed,
     skipped  |-> sm.skipped,
     suites   |-> [i \in 1..Len(sts) |->
                      XmlTestsuite(sts[i], StoredAt(i - 1, junk).results,
                                   StoredAt(i - 1, junk).count, clobber)]]

\* tc_main after the run: the XML report, the summary line, the exit code.
Report ==
    /\ pc = "report"
    /\ \E fopen_ok \in BOOLEAN, clobber \in Clobbered, junk \in JunkStorage :
        IF opts.xml_file # NULLSTR
        THEN IF fopen_ok
             THEN /\ xml_out' = "report"
                  /\ xml_doc' = tc_write_junit_xml(
                                    [k \in 1..Len(filtered) |-> Deref(filtered[k])],
                                    total, clobber, junk)
                  /\ accessed' = accessed \cup 0..(Len(filtered) - 1)
                  /\ msgs' = msgs \cup {"results written"}
             ELSE /\ msgs' = msgs \cup {"cannot open xml"}
                  /\ UNCHANGED <<xml_out, xml_doc, accessed>>
        ELSE UNCHANGED <<xml_out, xml_doc, accessed, msgs>>
    /\ exit_code' = tc_print_summary(total)
    /\ pc' = "done"
    /\ UNCHANGED <<resultVars, xmlVars, res, entry, argv, suites, opts, filtered,
                   store_results, si, ti, env, summary, total,
                   filtered_suites, tc__results, tc__result_counts, calls>>

Next ==
    \/ Main \/ CallRunAll \/ CallRunSuite \/ RunAllBegin
    \/ SuiteBegin \/ RunTest \/ SuiteEnd \/ RunAllReturn \/ Report

Spec == Init /\ [][Next]_vars

(***************************************************************************)
(* A caller that calls tc_run_all again and again, and tc_write_junit_xml  *)
(***************************************************************************)
RunsCatalogue ==
    { tc_suite_with(<<"S">>, "setup", "NULL",
               << tc_skip_test(<<"a">>, <<"r">>) >>),
      tc_suite_with(<<"B">>, "NULL", "teardown",
               << tc_skip_test(<<"t","1">>, NULLSTR),
                  tc_skip_test(<<"x">>, LongReason),
                  tc_skip_test(<<"t">>, Rep("r", TC_MAX_MSG_LEN - 1)) >>) }

\* Lists of up to one suite more than the result storage holds.
RunsCollections ==
    UNION { [1..n -> RunsCatalogue] : n \in 0..(TC_MAX_SUITES + 1) }

InitRuns ==
    /\ ResultIdle
    /\ XmlIdle
    /\ entry = "tc_run_all"
    /\ argv = <<>>
    /\ suites \in RunsCollections
    /\ EngineStart

\* The caller hands the list it ran and the summary it got to
\* tc_write_junit_xml(filename, suites, summary).
WriteXml ==
    /\ pc = "done" /\ entry = "tc_run_all"
    /\ \E fopen_ok \in BOOLEAN, clobber \in Clobbered, junk \in JunkStorage :
        IF fopen_ok
        THEN /\ xml_out' = "report"
             /\ xml_doc' = tc_write_junit_xml(suites, total, clobber, junk)
             /\ accessed' = accessed \cup 0..(Len(suites) - 1)
        ELSE UNCHANGED <<xml_out, xml_doc, accessed>>
    /\ pc' = "written"
    /\ UNCHANGED <<resultVars, xmlVars, res, entry, argv, suites, opts, filtered,
                   store_results, si, ti, env, summary, total,
                   filtered_suites, tc__results, tc__result_counts, calls,
                   msgs, exit_code>>

\* The caller goes on to its next tc_run_all, with another list; the static
\* storage is what the last run left.
Again ==
    /\ pc \in {"done", "written"} /\ entry = "tc_run_all"
    /\ suites' \in RunsCollections
    /\ pc' = "start"
    /\ filtered' = <<>> /\ store_results' = FALSE
    /\ si' = 0 /\ ti' = 0 /\ env' = "NULL"
    /\ res' = ZeroResult("TC_PASS")
    /\ summary' = ZeroSummary /\ total' = ZeroSummary
    /\ calls' = <<>> /\ msgs' = {} /\ xml_out' = "absent" /\ exit_code' = -1
    /\ xml_doc' = NoDocument
    /\ accessed' = {}
    /\ UNCHANGED <<resultVars, xmlVars, entry, argv, opts, filtered_suites,
                   tc__results, tc__result_counts>>

NextRuns ==
    \/ CallRunAll \/ RunAllBegin \/ SuiteBegin \/ RunTest \/ SuiteEnd
    \/ RunAllReturn \/ WriteXml \/ Again

SpecRuns == InitRuns /\ [][NextRuns]_vars

(***************************************************************************)
(* Properties of tc_combine (checked under SpecResult)                     *)
(***************************************************************************)
\* C1: for any two results a and b, when a is Skip tc_combine(a, b) is a
\* itself (tag, errors, elapsed time), also when b is Skip; when a is not
\* Skip and b is, it is b itself.
C1_SkipWins ==
    cpc = "paired" =>
        /\ ca.tag = "TC_SKIP" => cr = ca
        /\ (ca.tag # "TC_SKIP" /\ cb.tag = "TC_SKIP") => cr = cb

\* Both inputs are Skip and differ: the result is a, not b.
C1_Witness ==
    /\ cpc = "paired"
    /\ ca.tag = "TC_SKIP" /\ cb.tag = "TC_SKIP"
    /\ ca.errors # cb.errors
    /\ cr = ca

\* C2: for a and b each Pass or Fail, tc_combine(a, b) is Pass exactly when
\* both are Pass; otherwise it is Fail, its errors are a's followed by b's,
\* cut to the first TC_MAX_ERRORS, and its error count is
\* min(TC_MAX_ERRORS, a.error_count + b.error_count).
C2_PassFailMerge ==
    (cpc = "paired" /\ ca.tag # "TC_SKIP" /\ cb.tag # "TC_SKIP") =>
        LET bothPass == ca.tag = "TC_PASS" /\ cb.tag = "TC_PASS"
        IN  /\ (cr.tag = "TC_PASS") <=> bothPass
            /\ ~bothPass =>
                 /\ cr.tag = "TC_FAIL"
                 /\ cr.errors = Take(ca.errors \o cb.errors, TC_MAX_ERRORS)
                 /\ Len(cr.errors) =
                        Min(TC_MAX_ERRORS, Len(ca.errors) + Len(cb.errors))

\* Two failures whose errors together exceed the capacity and are cut.
C2_Witness ==
    /\ cpc = "paired"
    /\ ca.tag = "TC_FAIL" /\ cb.tag = "TC_FAIL"
    /\ Len(ca.errors) = 2 /\ Len(cb.errors) = 2
    /\ ca.errors # cb.errors
    /\ Len(cr.errors) = TC_MAX_ERRORS

\* The errors of the failing elements of a sequence of results, in order.
RECURSIVE FailErrors(_)
FailErrors(s) ==
    IF s = <<>> THEN <<>>
    ELSE (IF Head(s).tag = "TC_FAIL" THEN Head(s).errors ELSE <<>>)
             \o FailErrors(Tail(s))

SkipPositions(s) == { k \in 1..Len(s) : s[k].tag = "TC_SKIP" }

FirstSkip(s) ==
    s[CHOOSE k \in SkipPositions(s) : \A l \in SkipPositions(s) : k <= l]

\* C3: folding built results left to right with tc_combine gives, after
\* every element, the first Skip met so far if there is one (and so none of
\* the failures' errors); otherwise Pass when all were Pass, and otherwise
\* Fail with the errors of the failing elements in order, up to TC_MAX_ERRORS.
C3_FoldAccumulates ==
    cpc \in {"fold", "folded"} =>
        LET seen == SubSeq(chain, 1, ci)
        IN  IF SkipPositions(seen) # {}
            THEN acc = FirstSkip(seen)
            ELSE IF \A k \in 1..Len(seen) : seen[k].tag = "TC_PASS"
            THEN acc.tag = "TC_PASS" /\ acc.errors = <<>>
            ELSE /\ acc.tag = "TC_FAIL"
                 /\ acc.errors = Take(FailErrors(seen), TC_MAX_ERRORS)

\* A fold that met two failures and then two skips ends as the first skip.
C3_Witness ==
    /\ cpc = "folded"
    /\ Len(chain) = MaxChain
    /\ chain[1].tag = "TC_FAIL" /\ chain[2].tag = "TC_FAIL"
    /\ chain[3].tag = "TC_PASS"
    /\ chain[4].tag = "TC_SKIP" /\ chain[5].tag = "TC_SKIP"
    /\ chain[4] # chain[5]
    /\ acc = chain[4]

(***************************************************************************)
(* Properties of the engine (checked under Spec)                           *)
(***************************************************************************)
\* The suite at index s (from 0) of the list given to the runner.
RunSuite(s) == Deref(filtered[s + 1])

\* The user functions called while suite s ran, in call order.
CallsOf(s) ==
    LET InSuite(c) == c.suite = s
    IN  SelectSeq(calls, InSuite)

FnsOf(s) == [k \in 1..Len(CallsOf(s)) |-> <<CallsOf(s)[k].fn, CallsOf(s)[k].test>>]

TeardownsOf(s) ==
    LET IsTeardown(c) == c.fn = "teardown"
    IN  SelectSeq(CallsOf(s), IsTeardown)

SetupFailedAt(s) ==
    \E k \in 1..Len(calls) :
        calls[k].suite = s /\ calls[k].fn = "setup" /\ calls[k].ret # 0

\* tc__run_suite_ex has returned for suite s.
Completed(s) ==
    /\ s < Len(filtered)
    /\ \/ pc \in {"suite", "tests"} /\ s < si
       \/ pc \in {"report", "done"}

\* tc__run_suite_ex has just returned for suite s: summary is its result.
JustReturned(s) ==
    /\ Completed(s)
    /\ \/ pc = "suite" /\ si = s + 1
       \/ pc \in {"report", "done"} /\ s = Len(filtered) - 1

\* The test functions of a suite, with their indices, in declaration order.
TestCalls(suite) ==
    LET all == [j \in 1..suite.test_count |-> <<suite.tests[j].fn, j - 1>>]
        Runs(c) == c[1] # "NULL"
    IN  SelectSeq(all, Runs)

\* C4: when the setup of a suite returns nonzero, the suite's summary is
\* failed = test_count, passed = 0, skipped = 0, and the setup is the only
\* user function called for that suite: no test function, no teardown.
C4_SetupFailure ==
    \A s \in 0..(Len(filtered) - 1) :
        SetupFailedAt(s) =>
            /\ Len(CallsOf(s)) = 1
            /\ JustReturned(s) =>
                   summary = [passed  |-> 0,
                              failed  |-> RunSuite(s).test_count,
                              skipped |-> 0]

\* The suite with two tests and a teardown has just failed its setup.
C4_Witness ==
    /\ pc = "suite" /\ si = 1
    /\ SetupFailedAt(0)
    /\ RunSuite(0).test_count = 2
    /\ RunSuite(0).teardown # "NULL"
    /\ summary.failed = 2
    /\ Len(calls) = 1

ExpectedFns(s) ==
    (IF RunSuite(s).setup # "NULL" THEN << <<"setup", -1>> >> ELSE <<>>)
    \o (IF SetupFailedAt(s) THEN <<>>
        ELSE TestCalls(RunSuite(s))
             \o (IF RunSuite(s).teardown # "NULL"
                 THEN << <<"teardown", -1>> >> ELSE <<>>))

IsPrefix(x, y) == Len(x) <= Len(y) /\ x = SubSeq(y, 1, Len(x))

\* C6: the suites run in the order given, one at a time: the calls never go
\* back to an earlier suite; a suite that has returned called its setup
\* first, then each of its non-skipped test functions once in declaration
\* order, then its teardown (only the setup when it failed); the suite in
\* progress has called a prefix of that, and no later suite has called
\* anything.
C6_SequentialOrder ==
    /\ \A k, l \in 1..Len(calls) : k < l => calls[k].suite <= calls[l].suite
    /\ \A s \in 0..(Len(filtered) - 1) :
        IF Completed(s) THEN FnsOf(s) = ExpectedFns(s)
        ELSE IF s = si /\ pc = "tests" THEN IsPrefix(FnsOf(s), ExpectedFns(s))
        ELSE FnsOf(s) = <<>>

\* tc_run_all over three suites has returned, having called the two test
\* functions of the first suite and the ones of the second, in order.
C6_Witness ==
    /\ pc = "done" /\ entry = "tc_run_all"
    /\ Len(filtered) = 3
    /\ FnsOf(0) = << <<"fn_pass", 0>>, <<"fn_fail", 1>> >>
    /\ FnsOf(1) = << <<"setup", -1>>, <<"fn_pass", 0>>, <<"teardown", -1>> >>
    /\ FnsOf(2) = << <<"setup", -1>> >>

\* tc_run_test has just returned res for test ti - 1 of the current suite.
JustRan == pc = "tests" /\ ti > 0

RanTest == CurSuite.tests[ti]

NoCallFor(s, j) == \A k \in 1..Len(calls) : ~(calls[k].suite = s /\ calls[k].test = j)

\* The message tc_run_test gives a static skip: the configured reason, cut
\* to what a message buffer holds, or "skipped" without a reason.
SkipMessage(test) ==
    IF test.skip_reason = NULLSTR THEN <<"s","k","i","p","p","e","d">>
    ELSE Take(test.skip_reason, TC_MAX_MSG_LEN - 1)

\* C7 (as amended): running a test without a function gives, under every
\* environment handle, a Skip with zero elapsed time and a single error
\* whose message is the configured skip reason cut to TC_MAX_MSG_LEN - 1
\* characters ("skipped" when no reason is configured), and calls no user
\* function.
C7_StaticSkip ==
    (JustRan /\ RanTest.fn = "NULL") =>
        /\ res.tag = "TC_SKIP"
        /\ res.elapsed_ms = 0
        /\ Len(res.errors) = 1
        /\ res.errors[1].message = SkipMessage(RanTest)
        /\ NoCallFor(si, ti - 1)

\* C7 as stated: the single error message is the configured skip reason.
C7_Original ==
    (JustRan /\ RanTest.fn = "NULL") =>
        /\ res.tag = "TC_SKIP"
        /\ res.elapsed_ms = 0
        /\ Len(res.errors) = 1
        /\ res.errors[1].message = RanTest.skip_reason
        /\ NoCallFor(si, ti - 1)

\* A static skip with a reason ran under a handle that a setup stored.
C7_Witness ==
    /\ JustRan /\ RanTest.fn = "NULL"
    /\ env = "h1"
    /\ RanTest.skip_reason = <<"r">>
    /\ res = tc_skip(<<"r">>)

\* The outcome of a test: a static skip is skipped, a test function gives
\* what it returns.
TagOf(test) ==
    IF test.fn = "NULL" THEN "TC_SKIP" ELSE UserTestFn(test.fn, "NULL").tag

Tally(suite, tag) ==
    Cardinality({ j \in 1..suite.test_count : TagOf(suite.tests[j]) = tag })

\* What suite s adds to the totals, given how its setup went.
ExpectedSummary(s) ==
    IF SetupFailedAt(s)
    THEN [passed |-> 0, failed |-> RunSuite(s).test_count, skipped |-> 0]
    ELSE [passed  |-> Tally(RunSuite(s), "TC_PASS"),
          failed  |-> Tally(RunSuite(s), "TC_FAIL"),
          skipped |-> Tally(RunSuite(s), "TC_SKIP")]

RECURSIVE ExpectedTotal(_)
ExpectedTotal(n) ==
    IF n = 0 THEN [passed |-> 0, failed |-> 0, skipped |-> 0]
    ELSE LET t == ExpectedTotal(n - 1)
             e == ExpectedSummary(n - 1)
         IN  [passed  |-> t.passed + e.passed,
              failed  |-> t.failed + e.failed,
              skipped |-> t.skipped + e.skipped]

RunOver == pc \in {"report", "done"} /\ entry \in {"tc_main", "tc_run_all"}

\* C8: when tc_run_all (tc__run_all_ex) has returned, every suite that
\* follows a suite whose setup failed has been run as usual (its setup, its
\* test functions, its teardown), and the grand summary is the sum over the
\* suites of test_count as failed for a suite whose setup failed and of the
\* suite's own pass, fail and skip counts otherwise.
C8_SetupFailureContinues ==
    RunOver =>
        /\ \A s, s2 \in 0..(Len(filtered) - 1) :
               (SetupFailedAt(s) /\ s < s2) => FnsOf(s2) = ExpectedFns(s2)
        /\ total = ExpectedTotal(Len(filtered))

\* The first suite failed its setup; the second ran its two tests and the
\* third its setup, test and teardown; the failed suite's two tests and the
\* second suite's one failure are the three failures of the total.
C8_Witness ==
    /\ RunOver /\ entry = "tc_run_all"
    /\ Len(filtered) = 3
    /\ SetupFailedAt(0) /\ RunSuite(0).test_count = 2
    /\ Len(FnsOf(1)) = 2
    /\ Len(FnsOf(2)) = 3
    /\ total = [passed |-> 2, failed |-> 3, skipped |-> 1]

\* The list tc_main hands to tc__run_all_ex, as Suite values.
RunList == [k \in 1..Len(filtered) |-> Deref(filtered[k])]

\* tc_main went through its filter (no --help, no --list, XML file created).
Filtered ==
    /\ entry = "tc_main" /\ pc # "start"
    /\ msgs \cap {"help", "list", "cannot create xml"} = {}

Narrowing == opts.test_filter # NULLSTR \/ opts.match_filter # NULLSTR

WantSuite(suite) ==
    opts.suite_filter = NULLSTR \/ tc__matches(suite.name, opts.suite_filter)

WantTest(test) ==
    \/ opts.test_filter # NULLSTR /\ tc__matches(test.name, opts.test_filter)
    \/ opts.match_filter # NULLSTR /\ tc__matches(test.name, opts.match_filter)

\* A suite as the filter leaves it: itself without a test or match filter,
\* and otherwise a suite of the same name, setup and teardown holding the
\* tests whose name contains a filter string.
Narrowed(suite) ==
    IF ~Narrowing THEN suite
    ELSE [suite EXCEPT !.tests = SelectSeq(suite.tests, WantTest),
                       !.test_count = Len(SelectSeq(suite.tests, WantTest))]

\* The suites that survive the filter, in their original order.
Survivors ==
    LET Keep(suite) ==
            WantSuite(suite) /\ (Narrowing => Narrowed(suite).test_count > 0)
        kept == SelectSeq(suites, Keep)
    IN  [k \in 1..Len(kept) |-> Narrowed(kept[k])]

\* C9 (as amended): the suites tc_main runs are the first TC_MAX_SUITES of
\* the surviving suites: those whose name contains the suite filter, kept
\* as they are without a test or match filter and otherwise replaced by a
\* new suite holding the tests whose name contains the filter string, less
\* those left with no test; the order of suites and of tests is kept.
C9_FilterResult ==
    Filtered =>
        /\ RunList = Take(Survivors, TC_MAX_SUITES)
        /\ \A k \in 1..Len(filtered) : filtered[k].static = Narrowing

\* C9 as stated: the suites run are all the surviving suites.
C9_Original ==
    Filtered =>
        /\ RunList = Survivors
        /\ \A k \in 1..Len(filtered) : filtered[k].static = Narrowing

\* --match t1 over three suites: the first keeps one of its two tests, the
\* second keeps none and is dropped, the third keeps one of three.
C9_Witness ==
    /\ Filtered /\ pc = "done"
    /\ argv = <<OPT_MATCH, <<"t","1">>>>
    /\ Len(suites) = 3
    /\ suites[1].test_count = 2 /\ suites[2].test_count = 2
    /\ suites[3].test_count = 3
    /\ Len(filtered) = 2
    /\ RunList[1].name = <<"A">> /\ RunList[1].test_count = 1
    /\ RunList[2].name = <<"B">> /\ RunList[2].test_count = 1
    /\ Len(FnsOf(0)) = 1

\* The command line is --test S T and tc_main went through its filter.
TestPair == Filtered /\ Len(argv) = 3 /\ argv[1] = OPT_TEST

\* The caller's suites that --test S T selects, with the tests selected.
PairSelection ==
    LET HasT(test) == tc__matches(test.name, argv[3])
        Sel(suite) == /\ tc__matches(suite.name, argv[2])
                      /\ \E j \in 1..suite.test_count : HasT(suite.tests[j])
        kept == SelectSeq(suites, Sel)
    IN  [k \in 1..Len(kept) |->
            [name |-> kept[k].name, tests |-> SelectSeq(kept[k].tests, HasT)]]

\* C10 (as amended): with --test S T as the only option, the tests run are
\* those whose name contains T, in the suites whose name contains S that hold
\* such a test (the first TC_MAX_SUITES of them).
C10_SubstringPair ==
    TestPair =>
        [k \in 1..Len(filtered) |->
            [name |-> RunList[k].name, tests |-> RunList[k].tests]]
          = Take(PairSelection, TC_MAX_SUITES)

\* C10 as stated: with --test S T only tests named exactly T, in suites
\* named exactly S, are run.
C10_ExactPair ==
    TestPair =>
        \A k \in 1..Len(filtered) :
            /\ RunList[k].name = argv[2]
            /\ \A j \in 1..RunList[k].test_count :
                   RunList[k].tests[j].name = argv[3]

\* --test A t has run test t1 of suite A and test t of suite AB.
C10_Witness ==
    /\ TestPair /\ pc = "done"
    /\ argv = <<OPT_TEST, <<"A">>, <<"t">>>>
    /\ Len(filtered) = 2
    /\ RunList[1].name = <<"A">>
    /\ RunList[1].tests[2].name = <<"t","1">>
    /\ RunList[2].name = <<"A","B">>
    /\ \E k \in 1..Len(calls) : calls[k].suite = 0 /\ calls[k].test = 1

(***************************************************************************)
(* Properties of tc_main: exit codes, --list, --xml (checked under Spec)   *)
(***************************************************************************)
\* A suite, test or match filter was given.
FilterSet == opts.suite_filter # NULLSTR \/ Narrowing

\* tc_main has returned.
MainDone == entry = "tc_main" /\ pc = "done"

\* C11 (as amended): when the filter leaves no suite of a non-empty
\* collection to run (no suite name contains the suite filter, or under a
\* test or match filter every such suite keeps no test), tc_main reports
\* that no tests matched, returns 1 and has invoked no setup, test or
\* teardown function.
C11_NoSuiteLeft ==
    (Filtered /\ Len(suites) > 0 /\ Survivors = <<>>) =>
        /\ pc = "done"
        /\ msgs = {"no tests matched"}
        /\ exit_code = 1
        /\ calls = <<>>

\* C11 as stated: whenever the filters select zero tests from a non-empty
\* collection, tc_main returns 1 and has invoked no user function.
C11_Original ==
    (Filtered /\ pc = "done" /\ Len(suites) > 0 /\ FilterSet
       /\ \A k \in 1..Len(Survivors) : Survivors[k].test_count = 0) =>
        /\ exit_code = 1
        /\ calls = <<>>

\* --match z over two suites with tests, none of which has a z in its name.
C11_Witness ==
    /\ MainDone
    /\ argv = <<OPT_MATCH, <<"z">>>>
    /\ Len(suites) = 2
    /\ suites[1].test_count = 2 /\ suites[2].test_count = 3
    /\ msgs = {"no tests matched"}
    /\ exit_code = 1 /\ calls = <<>>

\* C12: a tc_main run over an empty suite collection with no filter set does
\* not end in the outcome of a filter that matched nothing: it neither
\* reports that no tests matched nor returns 1.
C12_EmptyCollectionDistinct ==
    (Filtered /\ pc = "done" /\ suites = <<>> /\ ~FilterSet) =>
        /\ "no tests matched" \notin msgs
        /\ exit_code # 1

\* tc_main ran a non-empty selection and the XML report, if asked for, was
\* written.
RanSelection ==
    /\ Filtered /\ pc = "done" /\ Len(filtered) > 0
    /\ opts.xml_file # NULLSTR => xml_out = "report"

\* C13: after tc_main has run a non-empty selection, it returns 1 if and
\* only if the grand summary has failed > 0, where the tests of a suite
\* whose setup failed count as failed and skipped tests count apart; it
\* returns 0 when every test passed or was skipped.
C13_ExitCode ==
    RanSelection =>
        /\ exit_code \in {0, 1}
        /\ exit_code = 1 <=> ExpectedTotal(Len(filtered)).failed > 0
        /\ total.failed = 0 => exit_code = 0

\* Two suites run with one pass and two skips, no failure: exit code 0.
C13_Witness ==
    /\ RanSelection
    /\ Len(filtered) = 2
    /\ total = [passed |-> 1, failed |-> 0, skipped |-> 2]
    /\ exit_code = 0

\* C14: whenever the XML destination could not be opened during a tc_main
\* invocation with --xml, at the creation before the run or at the write
\* after it, tc_main returns 1, also when every test passed.
C14_XmlFailureExit ==
    (MainDone /\ msgs \cap {"cannot create xml", "cannot open xml"} # {}) =>
        exit_code = 1

\* C15: with --xml <path> the file is created (empty) before anything is
\* run; when the creation fails tc_main returns nonzero at once and no
\* setup, test or teardown function is invoked in that invocation.
C15_CreateBeforeRun ==
    /\ (entry = "tc_main" /\ opts.xml_file # NULLSTR
          /\ pc \in {"run_all", "suite", "tests", "report"}) =>
           xml_out = "empty"
    /\ (entry = "tc_main" /\ opts.xml_file # NULLSTR /\ calls # <<>>) =>
           xml_out # "absent"
    /\ "cannot create xml" \in msgs =>
           /\ pc = "done"
           /\ exit_code \notin {0, -1}
           /\ calls = <<>>
           /\ xml_out = "absent"

\* --xml o.xml over two suites, the file cannot be created.
C15_Witness ==
    /\ MainDone
    /\ argv = <<OPT_XML, XmlPath>>
    /\ Len(suites) = 2 /\ suites[1].test_count = 2
    /\ msgs = {"cannot create xml"}
    /\ exit_code = 1 /\ calls = <<>>

\* --list is among the arguments and no --help or -h precedes it.
ListSeen ==
    \E k \in 1..Len(argv) :
        /\ argv[k] = OPT_LIST
        /\ \A j \in 1..(k - 1) : argv[j] \notin {OPT_HELP, OPT_H}

RECURSIVE SumSeq(_)
SumSeq(seq) == IF seq = <<>> THEN 0 ELSE Head(seq) + SumSeq(Tail(seq))

\* C17 (checked under Spec): in the XML report of a tc_main run every test
\* of a suite whose setup failed is recorded as failed, its testsuite
\* element has tests = failures = test_count, and the root element's tests,
\* failures and skipped are the sums of these attributes over the testsuite
\* elements.
C17_SetupFailedInReport ==
    (MainDone /\ xml_out = "report") =>
        /\ \A s \in 0..(Len(filtered) - 1) :
               SetupFailedAt(s) =>
                   /\ xml_doc.suites[s + 1].tests = RunSuite(s).test_count
                   /\ xml_doc.suites[s + 1].failures = RunSuite(s).test_count
        /\ LET n == Len(xml_doc.suites)
           IN  /\ xml_doc.tests =
                      SumSeq([k \in 1..n |-> xml_doc.suites[k].tests])
               /\ xml_doc.failures =
                      SumSeq([k \in 1..n |-> xml_doc.suites[k].failures])
               /\ xml_doc.skipped =
                      SumSeq([k \in 1..n |-> xml_doc.suites[k].skipped])

\* What a reader of the document makes of escaped text: each of the five
\* named entities stands for its character.
RECURSIVE XmlDecode(_)
XmlDecode(s) ==
    LET Starts(e) == Len(s) >= Len(e) /\ SubSeq(s, 1, Len(e)) = e
        After(e) == SubSeq(s, Len(e) + 1, Len(s))
        Reserved == { c \in XmlChars : c # "a" /\ Starts(Entity(c)) }
    IN  IF s = <<>> THEN <<>>
        ELSE IF Reserved # {}
             THEN LET c == CHOOSE x \in Reserved : TRUE
                  IN  <<c>> \o XmlDecode(After(Entity(c)))
        ELSE <<s[1]>> \o XmlDecode(Tail(s))

\* C18 (checked under SpecXml): for every name or message, of any length
\* and with any number of reserved characters, the text tc__xml_escape
\* leaves in its buffer decodes back to exactly the original string.
C18_EscapeRoundTrip ==
    (xpc = "escaped" /\ xsrc # NULLSTR) => XmlDecode(xesc) = xsrc

\* Every captured error in order: its message, then its expected/actual
\* pair when expected is not empty.
RECURSIVE FullBody(_)
FullBody(errors) ==
    IF errors = <<>> THEN <<>>
    ELSE LET e == Head(errors)
         IN  e.message \o NL
               \o (IF e.expected # <<>>
                   THEN ExpectedLabel \o e.expected \o NL
                          \o ActualLabel \o e.actual \o NL
                   ELSE <<>>)
               \o FullBody(Tail(errors))

\* C19 (checked under SpecXml): for every failing result of 1 to
\* TC_MAX_ERRORS errors the body of the failure element holds, once
\* decoded, the message of every captured error in order, each followed by
\* its expected/actual pair when expected is non-empty.
C19_BodyComplete ==
    xpc = "written" =>
        /\ xelem.child = "failure"
        /\ XmlDecode(xelem.body) = FullBody(xres.errors)

(***************************************************************************)
(* The invariant of outcomes (checked under SpecResult)                    *)
(***************************************************************************)
\* A Pass carries no error, a Fail or Skip at least one, and no outcome
\* more than TC_MAX_ERRORS.
WellFormed(r) ==
    /\ r.tag = "TC_PASS" => Len(r.errors) = 0
    /\ r.tag \in {"TC_FAIL", "TC_SKIP"} => Len(r.errors) >= 1
    /\ Len(r.errors) <= TC_MAX_ERRORS

\* C20: every outcome obtained from the constructors, the skip guards and
\* the assertions by tc_combine calls has zero errors when it is a Pass, at
\* least one when it is a Fail or a Skip, and never more than
\* TC_MAX_ERRORS: what they return has these properties, every
\* intermediate result of a fold has them, and tc_combine of any two
\* outcomes that have them has them.
C20_OutcomeInvariant ==
    /\ \A r \in BuiltResults : WellFormed(r)
    /\ cpc \in {"fold", "folded"} =>
           /\ \A k \in 1..Len(chain) : WellFormed(chain[k])
           /\ WellFormed(acc)
    /\ (cpc = "paired" /\ WellFormed(ca) /\ WellFormed(cb)) => WellFormed(cr)

\* A fold of MaxChain failing outcomes: the result is a Fail that is full.
C20_Witness ==
    /\ cpc = "folded"
    /\ Len(chain) = MaxChain
    /\ \A k \in 1..Len(chain) : chain[k].tag = "TC_FAIL"
    /\ acc.tag = "TC_FAIL"
    /\ Len(acc.errors) = TC_MAX_ERRORS

(***************************************************************************)
(* Frame and environment properties of the engine (checked under Spec)     *)
(***************************************************************************)
\* C21: tc_run_suite, tc_run_all and the filter of tc_main leave every
\* suite of the caller as it was (name, tests, test_count, setup,
\* teardown): no step changes the caller's suites, and under a test or
\* match filter every suite that is run is a separate value held in
\* filtered_suites.
C21_SuitesUnchanged ==
    /\ [][suites' = suites]_vars
    /\ [](Filtered /\ Narrowing => \A k \in 1..Len(filtered) : filtered[k].static)

\* --match t1 over suite A{t, t1} has run a copy that holds t1 alone; the
\* caller's suite still holds both tests.
C21_Witness ==
    /\ MainDone /\ Filtered
    /\ argv = <<OPT_MATCH, <<"t","1">>>>
    /\ Len(suites) = 1 /\ suites[1].test_count = 2
    /\ suites[1].tests[1].name = <<"t">>
    /\ Len(filtered) = 1 /\ filtered[1].static
    /\ RunList[1].test_count = 1
    /\ Len(calls) = 1

\* C22: in every suite run the handle each test function and the teardown
\* receive is the handle the suite's setup stored, and the null handle when
\* the suite has no setup: no handle of an earlier suite is passed on.
C22_EnvHandle ==
    \A k \in 1..Len(calls) :
        calls[k].fn # "setup" =>
            LET s == calls[k].suite
            IN  IF RunSuite(s).setup # "NULL"
                THEN \E j \in 1..(k - 1) :
                        /\ calls[j].fn = "setup" /\ calls[j].suite = s
                        /\ calls[j].ret = 0
                        /\ calls[k].env = calls[j].env
                ELSE calls[k].env = "NULL"

\* Three suites: the first test gets h1 from its setup, the second suite's
\* test and teardown get h2, the tests of the third, which has no setup,
\* get the null handle.
C22_Witness ==
    /\ entry = "tc_run_all" /\ pc = "done"
    /\ Len(calls) = 7
    /\ calls[1].fn = "setup" /\ calls[1].env = "h1"
    /\ calls[2].fn = "fn_skip" /\ calls[2].env = "h1"
    /\ calls[3].fn = "setup" /\ calls[3].env = "h2"
    /\ calls[4].fn = "fn_pass" /\ calls[4].env = "h2"
    /\ calls[5].fn = "teardown" /\ calls[5].env = "h2"
    /\ calls[6].fn = "fn_pass" /\ calls[6].env = "NULL"
    /\ calls[7].fn = "fn_fail" /\ calls[7].env = "NULL"

(***************************************************************************)
(* The detail buffer (checked under SpecXml), the totals (under Spec)      *)
(***************************************************************************)
\* C24: for every failing result of up to TC_MAX_ERRORS errors with
\* strings of up to TC_MAX_MSG_LEN - 1 characters, the offset pos into
\* detail never passes sizeof(detail) while the failure body is built (pos
\* only grows, so it is enough to look at it after the loop).
C24_PosWithinDetail ==
    xpc = "written" => xpos <= DetailSize

\* C25: the summary tc_run_all returns has passed + failed + skipped equal
\* to the sum of test_count over the suites given, the tests of setup-failed
\* suites being counted as failed and static skips as skipped.
C25_SummaryTotal ==
    (entry = "tc_run_all" /\ pc = "done") =>
        total.passed + total.failed + total.skipped
            = SumSeq([k \in 1..Len(suites) |-> suites[k].test_count])

\* Three suites, more than TC_MAX_SUITES: the setup of the first fails (its
\* two tests are failed), the second holds three static skips, the third
\* one passing and one failing test.
C25_Witness ==
    /\ entry = "tc_run_all" /\ pc = "done"
    /\ Len(suites) = 3
    /\ SetupFailedAt(0) /\ suites[1].test_count = 2
    /\ suites[2].test_count = 3 /\ suites[2].tests[1].fn = "NULL"
    /\ total = [passed |-> 1, failed |-> 3, skipped |-> 3]

(***************************************************************************)
(* The result storage across runs (checked under SpecRuns)                 *)
(***************************************************************************)
\* A tc_run_all has returned (and its report may have been written).
RunsOver == entry = "tc_run_all" /\ pc \in {"done", "written"}

\* The number of tests the latest run executed for suite index i.
ExecutedAt(i) ==
    IF i < Len(filtered) /\ ~SetupFailedAt(i) THEN RunSuite(i).test_count ELSE 0

\* C23: after any sequence of tc_run_all invocations the stored result
\* count of every suite index is the number of tests the latest invocation
\* executed for it, 0 for an index it did not reach, and a report written
\* then shows, for each index, that many test cases, each made from the
\* latest run's result.
C23_SnapshotsReset ==
    RunsOver =>
        /\ \A i \in 0..(TC_MAX_SUITES - 1) : tc__result_counts[i] = ExecutedAt(i)
        /\ (pc = "written" /\ xml_out = "report") =>
               \A i \in 0..(Min(Len(suites), TC_MAX_SUITES) - 1) :
                   LET e == xml_doc.suites[i + 1]
                   IN  /\ e.tests = ExecutedAt(i)
                       /\ Len(e.cases) = ExecutedAt(i)
                       /\ \A j \in 1..Len(e.cases) :
                              e.cases[j] =
                                  XmlTestcase(suites[i + 1].tests[j],
                                      tc_run_test(suites[i + 1].tests[j], "NULL", 0),
                                      <<>>)

\* The latest run had one suite of one test; results of an earlier run (a
\* third test at index 0, a suite at index 1) are still in tc__results but
\* the counts and the report show the latest run alone.
C23_Witness ==
    /\ RunsOver /\ pc = "written" /\ xml_out = "report"
    /\ Len(suites) = 1 /\ suites[1].test_count = 1
    /\ tc__result_counts[0] = 1 /\ tc__result_counts[1] = 0
    /\ tc__results[0][2].tag = "TC_SKIP"
    /\ tc__results[1][0].tag = "TC_SKIP"
    /\ Len(xml_doc.suites) = 1 /\ xml_doc.suites[1].tests = 1

\* C26: for a list of any length passed to tc_run_all and then to
\* tc_write_junit_xml, tc__results and tc__result_counts are read and
\* written only at suite indices below TC_MAX_SUITES.
C26_StorageIndexBounds ==
    \A i \in accessed : i >= 0 /\ i < TC_MAX_SUITES

=============================================================================
